---- MODULE Spec2Model ----
(***************************************************************************)
(* Model of the os4 kernel core: the cooperative task manager              *)
(* (os4/src/task/mod.rs) and the stack frame allocator                     *)
(* (os4/src/mm/frame_allocator.rs).                                        *)
(***************************************************************************)
EXTENDS Integers, Naturals, Sequences, FiniteSets, TLC

(* ------------------------------ bounds -------------------------------- *)
\* number of loaded applications (get_num_app())
NumApp == 3
\* largest clock reading the model lets the timer reach
MaxTime == 2

\* largest first page number the frame allocator is initialised with
MaxLow == 1
\* largest number of frames in the allocator's range
MaxFrames == 3
\* number of alloc calls the model follows
MaxAllocs == 5

\* number of count_syscall calls the model follows
MaxCalls == 2

\* largest start address and length given to task_mmap
MaxStart == 2
MaxLen == 3
\* number of frames left in the allocator when the tasks start
MmFrames == 2

\* Option::None
None == -1

Min(a, b) == IF a <= b THEN a ELSE b
Max(a, b) == IF a >= b THEN a ELSE b

Tasks == 0 .. (NumApp - 1)
\* physical page numbers the model hands to dealloc
PPNs == 0 .. (MaxLow + Max(MaxFrames, MmFrames))

Ready == "Ready"
Running == "Running"
Exited == "Exited"
TaskStatus == {Ready, Running, Exited}

VARIABLES
    task_status,    \* inner.tasks[i].task_status
    start_time,     \* inner.tasks[i].start_time (None or a clock reading)
    current_task,   \* inner.current_task
    next_task,      \* result of the last find_next_task (local `next`)
    borrowed,       \* TASK_MANAGER.inner is exclusively borrowed
    pc,             \* position of the kernel's single control flow
    panic_msg,      \* message of the fatal halt, "" while running
    time,           \* the timer (get_time())
    current,        \* StackFrameAllocator::current
    end,            \* StackFrameAllocator::end
    recycled,       \* StackFrameAllocator::recycled (top of stack last)
    trackers,       \* live FrameTrackers: page number -> how many own it
    fa_op,          \* last allocator operation and its argument
    fa_ret,         \* result of the last alloc
    fa_low,         \* history: the lower bound given to init
    returned,       \* history: page numbers alloc has ever returned
    allocated,      \* history: page numbers returned and not yet freed
    nalloc,         \* history: number of alloc calls since init
    ndealloc,       \* history: whether dealloc was called since init
    memory_set,     \* inner.tasks[i].memory_set: page number -> entry
    mm_op,          \* last task_mmap / task_munmap call and its arguments
    mm_ret,         \* its return value
    syscall_times,  \* inner.tasks[i].syscall_times
    calls,          \* history: count_syscall(id) calls made while i was current
    rt_ret,         \* last get_current_run_time: <<calling task, result>>
    waited,         \* history: dispatches made since task i became Ready
    owed            \* history: tasks Ready when i yielded, not dispatched since

faVars == <<current, end, recycled, trackers, fa_op, fa_ret, fa_low,
            returned, allocated, nalloc, ndealloc>>

mmVars == <<memory_set, mm_op, mm_ret>>

auxVars == <<syscall_times, calls, rt_ret>>

waitVars == <<waited, owed>>

vars == <<task_status, start_time, current_task, next_task, borrowed, pc,
          panic_msg, time, faVars, mmVars, auxVars, waitVars>>

schedVars == <<task_status, start_time, current_task, next_task, borrowed,
               pc, panic_msg>>

(* --------------------------- task manager ----------------------------- *)

\* TaskControlBlock::new: a fresh task is Ready and has never been dispatched
TaskControlBlock_new == [task_status |-> Ready, start_time |-> None]

\* UPSafeCell::exclusive_access: fatal when the cell is already borrowed
exclusive_access(b) == IF b THEN "already borrowed" ELSE "ok"

\* a guard that is never released
drop_inner_forgotten(b) == b

\* drop(inner): the guard is released
drop_inner(b) == FALSE

\* the current task keeps its status
mark_current_suspended_noop(status, cur) == status

\* mark_current_suspended: tasks[current].task_status = Ready
mark_current_suspended(status, cur) == [status EXCEPT ![cur] = Ready]

\* mark_current_exited: tasks[current].task_status = Exited
mark_current_exited(status, cur) == [status EXCEPT ![cur] = Exited]

\* a scan that starts at current instead of current + 1
find_next_task_from_current(status, cur) ==
    LET hits == {k \in 0 .. (NumApp - 1) : status[(cur + k) % NumApp] = Ready}
    IN  IF hits = {} THEN None
        ELSE LET k == CHOOSE x \in hits : \A y \in hits : x <= y
             IN  (cur + k) % NumApp

\* a scan that never examines current itself
find_next_task_others(status, cur) ==
    LET hits == {k \in 1 .. (NumApp - 1) : status[(cur + k) % NumApp] = Ready}
    IN  IF hits = {} THEN None
        ELSE LET k == CHOOSE x \in hits : \A y \in hits : x <= y
             IN  (cur + k) % NumApp

\* a scan that accepts every task that is not Running
find_next_task_not_running(status, cur) ==
    LET hits == {k \in 1 .. NumApp : status[(cur + k) % NumApp] # Running}
    IN  IF hits = {} THEN None
        ELSE LET k == CHOOSE x \in hits : \A y \in hits : x <= y
             IN  (cur + k) % NumApp

\* a scan that always starts at task 0
find_next_task_lowest(status, cur) ==
    LET hits == {i \in Tasks : status[i] = Ready}
    IN  IF hits = {} THEN None
        ELSE CHOOSE x \in hits : \A y \in hits : x <= y

\* the indices find_next_task examines, in order: offsets 1 .. num_app
\* from current, each taken modulo num_app
find_next_task(status, cur) ==
    LET hits == {k \in 1 .. NumApp : status[(cur + k) % NumApp] = Ready}
    IN  IF hits = {} THEN None
        ELSE LET k == CHOOSE x \in hits : \A y \in hits : x <= y
             IN  (cur + k) % NumApp

\* panic!: the kernel halts and nothing runs afterwards
Panic(msg) ==
    /\ pc' = "halt"
    /\ panic_msg' = msg

\* TaskManager::run_first_task up to the call of __switch
RunFirstTask ==
    /\ pc = "boot"
    /\ IF exclusive_access(borrowed) # "ok"
       THEN /\ Panic(exclusive_access(borrowed))
            /\ UNCHANGED <<task_status, start_time, current_task, next_task,
                           borrowed, time, faVars, mmVars, auxVars, waitVars>>
       ELSE /\ task_status' = [task_status EXCEPT ![0] = Running]
            /\ start_time' = [start_time EXCEPT ![0] = time]
            /\ borrowed' = drop_inner(TRUE)
            /\ pc' = "switch"
            /\ UNCHANGED <<current_task, next_task, panic_msg, time, faVars, mmVars, auxVars, waitVars>>

\* TaskManager::mark_current_suspended (first half of
\* suspend_current_and_run_next)
MarkCurrentSuspended ==
    /\ pc = "user"
    /\ IF exclusive_access(borrowed) # "ok"
       THEN /\ Panic(exclusive_access(borrowed))
            /\ UNCHANGED <<task_status, start_time, current_task, next_task,
                           borrowed, time, faVars, mmVars, auxVars, waitVars>>
       ELSE /\ task_status' = mark_current_suspended(task_status, current_task)
            /\ pc' = "run_next"
            /\ UNCHANGED <<start_time, current_task, next_task, borrowed,
                           panic_msg, time, faVars, mmVars, auxVars, waitVars>>

\* TaskManager::mark_current_exited (first half of exit_current_and_run_next)
MarkCurrentExited ==
    /\ pc = "user"
    /\ IF exclusive_access(borrowed) # "ok"
       THEN /\ Panic(exclusive_access(borrowed))
            /\ UNCHANGED <<task_status, start_time, current_task, next_task,
                           borrowed, time, faVars, mmVars, auxVars, waitVars>>
       ELSE /\ task_status' = mark_current_exited(task_status, current_task)
            /\ pc' = "run_next"
            /\ UNCHANGED <<start_time, current_task, next_task, borrowed,
                           panic_msg, time, faVars, mmVars, auxVars, waitVars>>

\* history kept at a dispatch of `next`: every task passed over while Ready
\* has waited one dispatch more (counted up to NumApp + 1)
waited_after(w, status, next) ==
    [i \in Tasks |->
        IF i # next /\ status[i] = Ready THEN Min(w[i] + 1, NumApp + 1)
        ELSE 0]

\* history kept at a dispatch of `next`: a task that has just yielded is
\* owed the other Ready tasks; a dispatched task is owed to nobody
owed_after(o, status, cur, next) ==
    [i \in Tasks |->
        IF i = cur
        THEN IF status[cur] = Ready
             THEN {j \in Tasks \ {cur} : status[j] = Ready} \ {next}
             ELSE {}
        ELSE o[i] \ {next}]

\* TaskManager::run_next_task up to the call of __switch, or its panic
\* a stamping that overwrites the timestamp at every dispatch
stamp_start_time_always(start, next, now) ==
    [start EXCEPT ![next] = now]

\* run_next_task: start_time is recorded only if it is still None
stamp_start_time(start, next, now) ==
    IF start[next] = None
    THEN [start EXCEPT ![next] = now]
    ELSE start

RunNextTask ==
    /\ pc = "run_next"
    /\ IF exclusive_access(borrowed) # "ok"
       THEN /\ Panic(exclusive_access(borrowed))
            /\ UNCHANGED <<task_status, start_time, current_task, next_task,
                           borrowed, time, faVars, mmVars, auxVars, waitVars>>
       ELSE LET next == find_next_task(task_status, current_task)
            IN  /\ next_task' = next
                /\ IF next # None
                   THEN /\ task_status' = [task_status EXCEPT ![next] = Running]
                        /\ current_task' = next
                        /\ start_time' = stamp_start_time(start_time, next, time)
                        /\ borrowed' = drop_inner(TRUE)
                        /\ pc' = "switch"
                        /\ waited' = waited_after(waited, task_status, next)
                        /\ owed' = owed_after(owed, task_status,
                                              current_task, next)
                        /\ UNCHANGED <<panic_msg, time, faVars, mmVars,
                                       auxVars>>
                   ELSE /\ Panic("All applications completed!")
                        /\ UNCHANGED <<task_status, start_time, current_task,
                                       borrowed, time, faVars, mmVars, auxVars, waitVars>>

\* __switch: control continues in the task that was made current, which
\* returns to user mode
Switch ==
    /\ pc = "switch"
    /\ pc' = "user"
    /\ UNCHANGED <<task_status, start_time, current_task, next_task, borrowed,
                   panic_msg, time, faVars, mmVars, auxVars, waitVars>>

\* TaskManager::find_next_task applied to an arbitrary task array
FindNextTask ==
    /\ pc = "find"
    /\ IF exclusive_access(borrowed) # "ok"
       THEN /\ Panic(exclusive_access(borrowed))
            /\ UNCHANGED next_task
       ELSE /\ next_task' = find_next_task(task_status, current_task)
            /\ pc' = "found"
            /\ UNCHANGED panic_msg
    /\ UNCHANGED <<task_status, start_time, current_task, borrowed, time,
                   faVars, mmVars, auxVars, waitVars>>

\* the timer advances
Tick ==
    /\ time < MaxTime
    /\ time' = time + 1
    /\ UNCHANGED <<schedVars, faVars, mmVars, auxVars, waitVars>>

\* config::MAX_SYSCALL_NUM, scaled down from 500
MAX_SYSCALL_NUM == 2

\* syscall ids given to count_syscall: the valid ones and two beyond
SyscallIds == 0 .. (MAX_SYSCALL_NUM + 1)

\* the sum of f over the finite set S
RECURSIVE SumOver(_, _)
SumOver(f, S) ==
    IF S = {} THEN 0
    ELSE LET x == CHOOSE y \in S : TRUE
         IN  f[x] + SumOver(f, S \ {x})

\* number of count_syscall calls made so far
TotalCalls ==
    SumOver([i \in Tasks |-> SumOver(calls[i], SyscallIds)], Tasks)

\* a count_syscall that folds an out-of-range id into the histogram
count_syscall_wrap(times, cur, syscall_id) ==
    [times EXCEPT ![cur][syscall_id % MAX_SYSCALL_NUM] = @ + 1]

\* a count_syscall that always charges the first task
count_syscall_first(times, cur, syscall_id) ==
    IF syscall_id < MAX_SYSCALL_NUM
    THEN [times EXCEPT ![0][syscall_id] = @ + 1]
    ELSE times

\* TaskManager::count_syscall: the histograms afterwards
count_syscall(times, cur, syscall_id) ==
    IF syscall_id < MAX_SYSCALL_NUM
    THEN [times EXCEPT ![cur][syscall_id] = @ + 1]
    ELSE times

\* TaskManager::get_syscall_times: a copy of the current task's histogram
get_syscall_times == syscall_times[current_task]

\* the count_syscall call made for a syscall of the running task
CountSyscall ==
    /\ pc = "user"
    /\ TotalCalls < MaxCalls
    /\ \E syscall_id \in SyscallIds :
          /\ calls' = [calls EXCEPT ![current_task][syscall_id] = @ + 1]
          /\ IF syscall_id < MAX_SYSCALL_NUM
                /\ exclusive_access(borrowed) # "ok"
             THEN /\ Panic(exclusive_access(borrowed))
                  /\ UNCHANGED syscall_times
             ELSE /\ syscall_times' =
                       count_syscall(syscall_times, current_task, syscall_id)
                  /\ UNCHANGED <<pc, panic_msg>>
    /\ UNCHANGED <<task_status, start_time, current_task, next_task, borrowed,
                   time, faVars, mmVars, rt_ret, waitVars>>

\* timer: clock ticks per millisecond, CLOCK_FREQ / MSEC_PER_SEC scaled down
TICKS_PER_MS == 2

\* timer::get_time: the clock in ticks
get_time(t) == t

\* timer::get_time_ms: the clock in milliseconds
get_time_ms(t) == t \div TICKS_PER_MS

\* the values of a usize, width scaled down
USIZE_MOD == 2 ^ 16

\* TaskManager::get_current_run_time: the usize subtraction as written;
\* a negative difference is an overflow of the subtraction
get_current_run_time(now, start) == get_time_ms(now) - start

\* the run-time query made by the running task
GetCurrentRunTime ==
    /\ pc = "user"
    /\ IF exclusive_access(borrowed) # "ok"
       THEN /\ Panic(exclusive_access(borrowed))
            /\ UNCHANGED rt_ret
       ELSE IF start_time[current_task] = None
       THEN /\ Panic("called Option::unwrap() on a None value")
            /\ UNCHANGED rt_ret
       ELSE LET d == get_current_run_time(time, start_time[current_task])
            IN  IF d >= 0
                THEN /\ rt_ret' = <<current_task, d>>
                     /\ UNCHANGED <<pc, panic_msg>>
                ELSE \* overflow checks on: panic; off: the difference wraps
                     \/ /\ Panic("attempt to subtract with overflow")
                        /\ UNCHANGED rt_ret
                     \/ /\ rt_ret' = <<current_task, d + USIZE_MOD>>
                        /\ UNCHANGED <<pc, panic_msg>>
    /\ UNCHANGED <<task_status, start_time, current_task, next_task, borrowed,
                   time, faVars, mmVars, syscall_times, calls, waitVars>>

(* -------------------------- frame allocator --------------------------- *)

\* StackFrameAllocator::new
StackFrameAllocator_new ==
    [current |-> 0, end |-> 0, recycled |-> <<>>]

\* an alloc that hands out the frontier page without advancing it
alloc_no_advance(cur, e, rec) ==
    IF rec # <<>>
    THEN [ret |-> rec[Len(rec)], current |-> cur,
          recycled |-> SubSeq(rec, 1, Len(rec) - 1)]
    ELSE IF cur = e
         THEN [ret |-> None, current |-> cur, recycled |-> rec]
         ELSE [ret |-> cur, current |-> cur, recycled |-> rec]

\* an alloc that takes the oldest recycled page
alloc_fifo(cur, e, rec) ==
    IF rec # <<>>
    THEN [ret |-> rec[1], current |-> cur, recycled |-> Tail(rec)]
    ELSE IF cur = e
         THEN [ret |-> None, current |-> cur, recycled |-> rec]
         ELSE [ret |-> cur, current |-> cur + 1, recycled |-> rec]

\* an alloc that reads the top of recycled without popping it
alloc_peek(cur, e, rec) ==
    IF rec # <<>>
    THEN [ret |-> rec[Len(rec)], current |-> cur, recycled |-> rec]
    ELSE IF cur = e
         THEN [ret |-> None, current |-> cur, recycled |-> rec]
         ELSE [ret |-> cur, current |-> cur + 1, recycled |-> rec]

\* StackFrameAllocator::alloc: the result and the allocator afterwards
alloc(cur, e, rec) ==
    IF rec # <<>>
    THEN [ret |-> rec[Len(rec)], current |-> cur,
          recycled |-> SubSeq(rec, 1, Len(rec) - 1)]
    ELSE IF cur = e
         THEN [ret |-> None, current |-> cur, recycled |-> rec]
         ELSE [ret |-> cur, current |-> cur + 1, recycled |-> rec]

\* a dealloc that forgets the frame instead of pushing it
dealloc_leak(cur, rec, ppn) ==
    IF ppn >= cur \/ (\E i \in 1 .. Len(rec) : rec[i] = ppn)
    THEN [panic |-> TRUE, recycled |-> rec]
    ELSE [panic |-> FALSE, recycled |-> rec]

\* StackFrameAllocator::dealloc: whether it panics, and recycled afterwards
dealloc(cur, rec, ppn) ==
    IF ppn >= cur \/ (\E i \in 1 .. Len(rec) : rec[i] = ppn)
    THEN [panic |-> TRUE, recycled |-> rec]
    ELSE [panic |-> FALSE, recycled |-> Append(rec, ppn)]

\* init_frame_allocator / StackFrameAllocator::init, once at boot
InitFrameAllocator ==
    /\ pc = "boot"
    /\ fa_op = <<"new">>
    /\ \E l \in 0 .. MaxLow : \E r \in l .. (l + MaxFrames) :
          /\ current' = l
          /\ end' = r
          /\ fa_low' = l
    /\ fa_op' = <<"init">>
    /\ UNCHANGED <<recycled, trackers, fa_ret, returned, allocated, nalloc,
                   ndealloc>>
    /\ UNCHANGED <<schedVars, time, mmVars, auxVars, waitVars>>

\* the allocator part of an alloc call
AllocStep ==
    LET a == alloc(current, end, recycled)
    IN  /\ current' = a.current
        /\ recycled' = a.recycled
        /\ fa_ret' = a.ret
        /\ fa_op' = <<"alloc">>
        /\ nalloc' = nalloc + 1
        /\ returned' = IF a.ret = None THEN returned ELSE returned \cup {a.ret}
        /\ allocated' = IF a.ret = None THEN allocated
                        ELSE allocated \cup {a.ret}
        /\ UNCHANGED <<end, fa_low, ndealloc>>

\* the allocator part of a dealloc call, with its panic
DeallocStep(ppn) ==
    LET d == dealloc(current, recycled, ppn)
    IN  /\ recycled' = d.recycled
        /\ fa_op' = <<"dealloc", ppn>>
        /\ ndealloc' = TRUE
        /\ IF d.panic
           THEN /\ Panic("Frame has not been allocated!")
                /\ UNCHANGED allocated
           ELSE /\ allocated' = allocated \ {ppn}
                /\ UNCHANGED <<pc, panic_msg>>
        /\ UNCHANGED <<current, end, fa_ret, fa_low, returned, nalloc>>

\* StackFrameAllocator::alloc called on the allocator itself
Alloc ==
    /\ pc = "boot"
    /\ fa_op # <<"new">>
    /\ nalloc < MaxAllocs
    /\ AllocStep
    /\ UNCHANGED <<trackers, pc, panic_msg>>
    /\ UNCHANGED <<task_status, start_time, current_task, next_task, borrowed,
                   time, mmVars, auxVars, waitVars>>

\* StackFrameAllocator::dealloc called on the allocator itself, with any
\* page number
Dealloc ==
    /\ pc = "boot"
    /\ fa_op # <<"new">>
    /\ \E ppn \in PPNs : DeallocStep(ppn)
    /\ UNCHANGED trackers
    /\ UNCHANGED <<task_status, start_time, current_task, next_task, borrowed,
                   time, mmVars, auxVars, waitVars>>

\* frame_alloc: alloc().map(FrameTracker::new)
FrameAlloc ==
    /\ pc = "boot"
    /\ fa_op # <<"new">>
    /\ nalloc < MaxAllocs
    /\ AllocStep
    /\ trackers' = IF fa_ret' = None THEN trackers
                   ELSE [trackers EXCEPT ![fa_ret'] = @ + 1]
    /\ UNCHANGED <<pc, panic_msg>>
    /\ UNCHANGED <<task_status, start_time, current_task, next_task, borrowed,
                   time, mmVars, auxVars, waitVars>>

\* Drop for FrameTracker: frame_dealloc(self.ppn)
DropTracker ==
    /\ pc = "boot"
    /\ fa_op # <<"new">>
    /\ \E ppn \in PPNs :
          /\ trackers[ppn] > 0
          /\ trackers' = [trackers EXCEPT ![ppn] = @ - 1]
          /\ DeallocStep(ppn)
    /\ UNCHANGED <<task_status, start_time, current_task, next_task, borrowed,
                   time, mmVars, auxVars, waitVars>>

(* --------------------------- address space --------------------------- *)

\* config::PAGE_SIZE, scaled down from 4096
PAGE_SIZE == 2

\* argument values given to task_mmap
Starts == 0 .. MaxStart
Lens == 0 .. MaxLen
Ports == {0, 3, 8, 257}

\* VirtAddr::aligned, VirtAddr::floor, VirtAddr::ceil
aligned(va) == va % PAGE_SIZE = 0
floor(va) == va \div PAGE_SIZE
ceil(va) == (va + PAGE_SIZE - 1) \div PAGE_SIZE

\* the virtual pages the model follows: every page a call can cover
VPNs == 0 .. (ceil(MaxStart + MaxLen) - 1)

\* VPNRange::new(start_vpn, end_vpn)
VPNRange(start_vpn, end_vpn) == start_vpn .. (end_vpn - 1)

\* page-table entries: absent, present but not valid, valid
NoPte == [kind |-> "none", ppn |-> None, flags |-> 0]
InvalidPte == [kind |-> "invalid", ppn |-> None, flags |-> 0]
ValidPte(ppn, flags) == [kind |-> "valid", ppn |-> ppn, flags |-> flags]

\* MemorySet::translate(vpn) and PageTableEntry::is_valid
translate(ms, vpn) == ms[vpn]
is_valid(pte) == pte.kind = "valid"

\* bit k of n, and port & 0x7, port & !0x7
Bit(n, k) == (n \div (2 ^ k)) % 2
PortLow(port) == port % 8
PortHigh(port) == port - (port % 8)

\* MapPermission::U
PermU == 16

\* a permission built from the port bits without the shift
map_perm_noshift(port) ==
    LET bits == port % 256
    IN  bits + (IF Bit(bits, 4) = 1 THEN 0 ELSE PermU)

\* MapPermission::from_bits((port as u8) << 1).unwrap() | MapPermission::U,
\* for a port that passed the check (port & !0x7) == 0
map_perm(port) ==
    LET shifted == (((port % 256) * 2) % 256)
    IN  shifted + (IF Bit(shifted, 4) = 1 THEN 0 ELSE PermU)

\* the allocator as insert_framed_area threads it through its frame_alloc
\* calls
AllocatorState ==
    [current |-> current, end |-> end, recycled |-> recycled,
     trackers |-> trackers, returned |-> returned, allocated |-> allocated,
     nalloc |-> nalloc, fa_ret |-> fa_ret, panic |-> FALSE]

\* MemorySet::insert_framed_area: one frame_alloc().unwrap() and one
\* page-table entry for each page of [vpn, end_vpn), in ascending order
RECURSIVE insert_framed_area(_, _, _, _, _)
insert_framed_area(ms, a, vpn, end_vpn, perm) ==
    IF vpn >= end_vpn \/ a.panic
    THEN [ms |-> ms, a |-> a]
    ELSE LET r == alloc(a.current, a.end, a.recycled)
             counted == [a EXCEPT !.nalloc = Min(@ + 1, MaxAllocs),
                                  !.fa_ret = r.ret]
         IN  IF r.ret = None
             THEN [ms |-> ms, a |-> [counted EXCEPT !.panic = TRUE]]
             ELSE insert_framed_area(
                      [ms EXCEPT ![vpn] = ValidPte(r.ret, perm)],
                      [counted EXCEPT
                          !.current = r.current,
                          !.recycled = r.recycled,
                          !.trackers = [@ EXCEPT ![r.ret] = @ + 1],
                          !.returned = @ \cup {r.ret},
                          !.allocated = @ \cup {r.ret}],
                      vpn + 1, end_vpn, perm)

\* a task_mmap that maps page by page and stops at the first page that is
\* already mapped
task_mmap_partial(ms, a, start, len, port) ==
    LET start_vpn == floor(start)
        end_vpn == ceil(start + len)
        taken == {vpn \in VPNRange(start_vpn, end_vpn) :
                      is_valid(translate(ms, vpn))}
        stop == IF taken = {} THEN end_vpn
                ELSE CHOOSE v \in taken : \A w \in taken : v <= w
    IN  IF ~aligned(start) \/ PortHigh(port) # 0 \/ PortLow(port) = 0
        THEN [ret |-> -1, ms |-> ms, a |-> a]
        ELSE LET done == insert_framed_area(ms, a, start_vpn, stop,
                                            map_perm(port))
             IN  [ret |-> IF taken = {} THEN 0 ELSE -1,
                  ms |-> done.ms, a |-> done.a]

\* a task_mmap that checks the port after truncating it to u8
task_mmap_u8_check(ms, a, start, len, port) ==
    LET start_vpn == floor(start)
        end_vpn == ceil(start + len)
        port8 == port % 256
    IN  IF ~aligned(start) \/ PortHigh(port8) # 0 \/ PortLow(port8) = 0
        THEN [ret |-> -1, ms |-> ms, a |-> a]
        ELSE IF \E vpn \in VPNRange(start_vpn, end_vpn) :
                    is_valid(translate(ms, vpn))
             THEN [ret |-> -1, ms |-> ms, a |-> a]
             ELSE LET done == insert_framed_area(ms, a, start_vpn, end_vpn,
                                                 map_perm(port))
                  IN  [ret |-> 0, ms |-> done.ms, a |-> done.a]

\* TaskManager::task_mmap on the current task's memory set: the return
\* value, the memory set and the allocator afterwards
task_mmap(ms, a, start, len, port) ==
    LET start_vpn == floor(start)
        end_vpn == ceil(start + len)
    IN  IF ~aligned(start) \/ PortHigh(port) # 0 \/ PortLow(port) = 0
        THEN [ret |-> -1, ms |-> ms, a |-> a]
        ELSE IF \E vpn \in VPNRange(start_vpn, end_vpn) :
                    is_valid(translate(ms, vpn))
             THEN [ret |-> -1, ms |-> ms, a |-> a]
             ELSE LET done == insert_framed_area(ms, a, start_vpn, end_vpn,
                                                 map_perm(port))
                  IN  [ret |-> 0, ms |-> done.ms, a |-> done.a]

\* the task_mmap syscall of the running task
TaskMmap ==
    /\ pc = "user"
    /\ \E start \in Starts : \E len \in Lens : \E port \in Ports :
          LET m == task_mmap(memory_set[current_task], AllocatorState,
                             start, len, port)
          IN  /\ mm_op' = <<"mmap", start, len, port>>
              /\ IF exclusive_access(borrowed) # "ok"
                    /\ aligned(start) /\ PortHigh(port) = 0
                    /\ PortLow(port) # 0
                 THEN /\ Panic(exclusive_access(borrowed))
                      /\ UNCHANGED <<memory_set, mm_ret, current, recycled,
                                     trackers, returned, allocated, nalloc,
                                     fa_ret>>
                 ELSE /\ memory_set' =
                           [memory_set EXCEPT ![current_task] = m.ms]
                      /\ current' = m.a.current
                      /\ recycled' = m.a.recycled
                      /\ trackers' = m.a.trackers
                      /\ returned' = m.a.returned
                      /\ allocated' = m.a.allocated
                      /\ nalloc' = m.a.nalloc
                      /\ fa_ret' = m.a.fa_ret
                      /\ IF m.a.panic
                         THEN /\ Panic("called Option::unwrap() on a None value")
                              /\ UNCHANGED mm_ret
                         ELSE /\ mm_ret' = m.ret
                              /\ UNCHANGED <<pc, panic_msg>>
    /\ UNCHANGED <<task_status, start_time, current_task, next_task, borrowed,
                   time, end, fa_op, fa_low, ndealloc, auxVars, waitVars>>

\* MemorySet::unmap(start_vpn, end_vpn): every page of [vpn, end_vpn) loses
\* its mapping and the FrameTracker that backed it is dropped
RECURSIVE unmap(_, _, _, _)
unmap(ms, a, vpn, end_vpn) ==
    IF vpn >= end_vpn \/ a.panic
    THEN [ms |-> ms, a |-> a]
    ELSE LET ppn == ms[vpn].ppn
             d == dealloc(a.current, a.recycled, ppn)
         IN  unmap([ms EXCEPT ![vpn] = InvalidPte],
                   [a EXCEPT !.recycled = d.recycled,
                             !.trackers = [@ EXCEPT ![ppn] = @ - 1],
                             !.allocated = IF d.panic THEN @ ELSE @ \ {ppn},
                             !.panic = d.panic],
                   vpn + 1, end_vpn)

\* a task_munmap that unmaps page by page and stops at the first page that
\* is not mapped
task_munmap_partial(ms, a, start, len) ==
    LET start_vpn == floor(start)
        end_vpn == ceil(start + len)
        missing == {vpn \in VPNRange(start_vpn, end_vpn) :
                        ~is_valid(translate(ms, vpn))}
        stop == IF missing = {} THEN end_vpn
                ELSE CHOOSE v \in missing : \A w \in missing : v <= w
    IN  IF ~aligned(start)
        THEN [ret |-> -1, ms |-> ms, a |-> a]
        ELSE LET done == unmap(ms, a, start_vpn, stop)
             IN  [ret |-> IF missing = {} THEN 0 ELSE -1,
                  ms |-> done.ms, a |-> done.a]

\* a task_munmap that accepts an unaligned start
task_munmap_unaligned(ms, a, start, len) ==
    LET start_vpn == floor(start)
        end_vpn == ceil(start + len)
    IN  IF \E vpn \in VPNRange(start_vpn, end_vpn) :
               ~is_valid(translate(ms, vpn))
        THEN [ret |-> -1, ms |-> ms, a |-> a]
        ELSE LET done == unmap(ms, a, start_vpn, end_vpn)
             IN  [ret |-> 0, ms |-> done.ms, a |-> done.a]

\* a task_munmap that reports success without unmapping
task_munmap_skip(ms, a, start, len) ==
    LET start_vpn == floor(start)
        end_vpn == ceil(start + len)
    IN  IF ~aligned(start)
        THEN [ret |-> -1, ms |-> ms, a |-> a]
        ELSE IF \E vpn \in VPNRange(start_vpn, end_vpn) :
                    ~is_valid(translate(ms, vpn))
             THEN [ret |-> -1, ms |-> ms, a |-> a]
             ELSE [ret |-> 0, ms |-> ms, a |-> a]

\* TaskManager::task_munmap on the current task's memory set: the return
\* value, the memory set and the allocator afterwards
task_munmap(ms, a, start, len) ==
    LET start_vpn == floor(start)
        end_vpn == ceil(start + len)
    IN  IF ~aligned(start)
        THEN [ret |-> -1, ms |-> ms, a |-> a]
        ELSE IF \E vpn \in VPNRange(start_vpn, end_vpn) :
                    ~is_valid(translate(ms, vpn))
             THEN [ret |-> -1, ms |-> ms, a |-> a]
             ELSE LET done == unmap(ms, a, start_vpn, end_vpn)
                  IN  [ret |-> 0, ms |-> done.ms, a |-> done.a]

\* the task_munmap syscall of the running task
TaskMunmap ==
    /\ pc = "user"
    /\ \E start \in Starts : \E len \in Lens :
          LET m == task_munmap(memory_set[current_task], AllocatorState,
                               start, len)
          IN  /\ mm_op' = <<"munmap", start, len>>
              /\ IF exclusive_access(borrowed) # "ok" /\ aligned(start)
                 THEN /\ Panic(exclusive_access(borrowed))
                      /\ UNCHANGED <<memory_set, mm_ret, recycled, trackers,
                                     allocated, ndealloc>>
                 ELSE /\ memory_set' =
                           [memory_set EXCEPT ![current_task] = m.ms]
                      /\ recycled' = m.a.recycled
                      /\ trackers' = m.a.trackers
                      /\ allocated' = m.a.allocated
                      /\ ndealloc' = (ndealloc \/ m.a.recycled # recycled)
                      /\ IF m.a.panic
                         THEN /\ Panic("Frame has not been allocated!")
                              /\ UNCHANGED mm_ret
                         ELSE /\ mm_ret' = m.ret
                              /\ UNCHANGED <<pc, panic_msg>>
    /\ UNCHANGED <<task_status, start_time, current_task, next_task, borrowed,
                   time, current, end, fa_op, fa_ret, fa_low, returned, nalloc,
                   auxVars, waitVars>>

\* FRAME_ALLOCATOR right after StackFrameAllocator::new
InitFrameVars ==
    /\ current = StackFrameAllocator_new.current
    /\ end = StackFrameAllocator_new.end
    /\ recycled = StackFrameAllocator_new.recycled
    /\ trackers = [p \in PPNs |-> 0]
    /\ fa_op = <<"new">>
    /\ fa_ret = None
    /\ fa_low = 0
    /\ returned = {}
    /\ allocated = {}
    /\ nalloc = 0
    /\ ndealloc = FALSE

\* the part of every task's address space that task_mmap works on: nothing
\* mapped, no call made
InitMemoryVars ==
    /\ memory_set = [i \in Tasks |-> [vpn \in VPNs |-> NoPte]]
    /\ mm_op = <<"none">>
    /\ mm_ret = None

\* zeroed histograms, no run-time query made, nobody has waited
InitAuxVars ==
    /\ syscall_times = [i \in Tasks |-> [id \in 0 .. (MAX_SYSCALL_NUM - 1) |-> 0]]
    /\ calls = [i \in Tasks |-> [id \in SyscallIds |-> 0]]
    /\ rt_ret = <<None, 0>>
    /\ waited = [i \in Tasks |-> 0]
    /\ owed = [i \in Tasks |-> {}]

Init ==
    /\ task_status = [i \in Tasks |-> TaskControlBlock_new.task_status]
    /\ start_time = [i \in Tasks |-> TaskControlBlock_new.start_time]
    /\ current_task = 0
    /\ next_task = None
    /\ borrowed = FALSE
    /\ pc = "boot"
    /\ panic_msg = ""
    /\ time = 0
    /\ InitFrameVars
    /\ InitMemoryVars
    /\ InitAuxVars

Next ==
    \/ RunFirstTask
    \/ MarkCurrentSuspended
    \/ MarkCurrentExited
    \/ RunNextTask
    \/ Switch
    \/ Tick

Spec == Init /\ [][Next]_vars

\* every task array and every current index, for find_next_task alone
InitFind ==
    /\ task_status \in [Tasks -> TaskStatus]
    /\ start_time = [i \in Tasks |-> None]
    /\ current_task \in Tasks
    /\ next_task = None
    /\ borrowed = FALSE
    /\ pc = "find"
    /\ panic_msg = ""
    /\ time = 0
    /\ InitFrameVars
    /\ InitMemoryVars
    /\ InitAuxVars

NextFind == FindNextTask

SpecFind == InitFind /\ [][NextFind]_vars

\* the StackFrameAllocator on its own: init, alloc, dealloc of any page
NextAlloc ==
    \/ InitFrameAllocator
    \/ Alloc
    \/ Dealloc

SpecAlloc == Init /\ [][NextAlloc]_vars

\* the allocator as the kernel uses it: frame_alloc and FrameTracker drops
NextFrame ==
    \/ InitFrameAllocator
    \/ FrameAlloc
    \/ DropTracker

SpecFrame == Init /\ [][NextFrame]_vars

\* the kernel after mm::init and the construction of the task manager:
\* MmFrames frames are left in the allocator, run_first_task has not been
\* called
InitMm ==
    /\ task_status = [i \in Tasks |-> TaskControlBlock_new.task_status]
    /\ start_time = [i \in Tasks |-> TaskControlBlock_new.start_time]
    /\ current_task = 0
    /\ next_task = None
    /\ borrowed = FALSE
    /\ pc = "boot"
    /\ panic_msg = ""
    /\ time = 0
    /\ \E l \in 0 .. MaxLow :
          /\ current = l
          /\ end = l + MmFrames
          /\ fa_low = l
    /\ recycled = StackFrameAllocator_new.recycled
    /\ trackers = [p \in PPNs |-> 0]
    /\ fa_op = <<"init">>
    /\ fa_ret = None
    /\ returned = {}
    /\ allocated = {}
    /\ nalloc = 0
    /\ ndealloc = FALSE
    /\ InitMemoryVars
    /\ InitAuxVars

\* scheduling together with the memory syscalls of the running task
NextMm ==
    \/ RunFirstTask
    \/ MarkCurrentSuspended
    \/ RunNextTask
    \/ Switch
    \/ TaskMmap

SpecMm == InitMm /\ [][NextMm]_vars

\* scheduling together with the run-time query
NextTime ==
    \/ RunFirstTask
    \/ MarkCurrentSuspended
    \/ MarkCurrentExited
    \/ RunNextTask
    \/ Switch
    \/ Tick
    \/ GetCurrentRunTime

SpecTime == Init /\ [][NextTime]_vars

\* every per-task operation together with scheduling; the memory calls are
\* for the first page, at most two frames are ever handed out, and one
\* syscall with a valid id is counted
NextTask ==
    \/ RunFirstTask
    \/ MarkCurrentSuspended
    \/ MarkCurrentExited
    \/ RunNextTask
    \/ Switch
    \/ TaskMmap /\ nalloc < 2 /\ mm_op' = <<"mmap", 0, PAGE_SIZE, 3>>
    \/ TaskMunmap /\ mm_op' = <<"munmap", 0, PAGE_SIZE>>
    \/ CountSyscall /\ TotalCalls = 0 /\ calls'[current_task][1] = 1

\* as InitMm, with the frame range starting at page 0
InitTask == InitMm /\ fa_low = 0

SpecTask == InitTask /\ [][NextTask]_vars

\* scheduling together with syscall counting
NextSys ==
    \/ RunFirstTask
    \/ MarkCurrentSuspended
    \/ MarkCurrentExited
    \/ RunNextTask
    \/ Switch
    \/ CountSyscall

SpecSys == Init /\ [][NextSys]_vars

\* the first task mapping and unmapping pages of its address space
NextMem ==
    \/ RunFirstTask
    \/ Switch
    \/ TaskMmap
    \/ TaskMunmap

SpecMem == InitMm /\ [][NextMem]_vars

TypeOK ==
    /\ task_status \in [Tasks -> TaskStatus]
    /\ start_time \in [Tasks -> {None} \cup (0 .. MaxTime)]
    /\ current_task \in Tasks
    /\ next_task \in Tasks \cup {None}
    /\ borrowed \in BOOLEAN
    /\ pc \in {"boot", "user", "run_next", "switch", "halt", "find", "found"}
    /\ time \in 0 .. MaxTime
    /\ current \in PPNs
    /\ end \in PPNs
    /\ recycled \in Seq(PPNs)
    /\ trackers \in [PPNs -> Nat]
    /\ fa_ret \in PPNs \cup {None}
    /\ returned \subseteq PPNs
    /\ allocated \subseteq PPNs
    /\ nalloc \in 0 .. MaxAllocs
    /\ ndealloc \in BOOLEAN
    /\ \A i \in Tasks : \A vpn \in VPNs :
          /\ memory_set[i][vpn].kind \in {"none", "invalid", "valid"}
          /\ memory_set[i][vpn].ppn \in PPNs \cup {None}
    /\ mm_ret \in {None, 0, -1}
    /\ syscall_times \in [Tasks -> [0 .. (MAX_SYSCALL_NUM - 1) -> 0 .. MaxCalls]]
    /\ calls \in [Tasks -> [SyscallIds -> 0 .. MaxCalls]]
    /\ waited \in [Tasks -> 0 .. (NumApp + 1)]
    /\ owed \in [Tasks -> SUBSET Tasks]

(* ----------------------------- properties ----------------------------- *)

RunningTasks == {i \in Tasks : task_status[i] = Running}
ReadyTasks == {i \in Tasks : task_status[i] = Ready}

\* C1 as stated: once run_first_task has started scheduling, exactly one
\* task is Running in every state, the states between mark_current_* and
\* run_next_task included
C1_ExactlyOneRunningAlways ==
    pc # "boot" => Cardinality(RunningTasks) = 1

\* C1 amended: once scheduling has started at most one task is Running in
\* every state, and exactly one, tasks[current_task], from a dispatch until
\* the next mark_current_suspended / mark_current_exited
C1_OneRunningWhileDispatched ==
    /\ Cardinality(RunningTasks) <= 1
    /\ pc \in {"switch", "user"} => RunningTasks = {current_task}
    /\ pc \in {"run_next", "halt"} => RunningTasks = {}

C1_Witness ==
    /\ pc = "user"
    /\ current_task = 2
    /\ task_status[2] = Running
    /\ task_status[0] = Ready
    /\ task_status[1] = Exited

\* position of index i in the scan order current+1, ..., current+num_app
ScanPos(cur, i) == (i - cur - 1 + NumApp) % NumApp

\* C2: find_next_task returns the first Ready index in the order
\* current+1, ..., current+num_app (mod num_app), current itself last, and
\* none only when no task is Ready; [Ready, Exited, Ready] with current 0
\* gives 2
C2_RoundRobinSelection ==
    pc = "found" =>
        /\ (next_task = None) <=> (ReadyTasks = {})
        /\ next_task # None =>
              /\ next_task \in ReadyTasks
              /\ \A i \in ReadyTasks :
                    ScanPos(current_task, next_task) <= ScanPos(current_task, i)
        /\ ( /\ current_task = 0
             /\ task_status[0] = Ready
             /\ task_status[1] = Exited
             /\ task_status[2] = Ready ) => next_task = 2

C2_Witness ==
    /\ pc = "found"
    /\ current_task = 0
    /\ task_status[0] = Ready
    /\ task_status[1] = Exited
    /\ task_status[2] = Ready
    /\ next_task = 2

\* C3: a run_next_task step halts with "All applications completed!" if
\* and only if no task is Ready when it is called, and dispatches otherwise
C3_HaltIffNoReady ==
    [][(pc = "run_next" /\ pc' # "run_next") =>
          /\ (panic_msg' = "All applications completed!") <=> (ReadyTasks = {})
          /\ (ReadyTasks = {}) <=> (pc' = "halt")
          /\ (ReadyTasks # {}) <=> (pc' = "switch")]_vars

C3_Witness ==
    /\ pc = "halt"
    /\ panic_msg = "All applications completed!"
    /\ \A i \in Tasks : task_status[i] = Exited

\* C4: the guard on the task manager's inner state is free whenever
\* __switch is invoked, and no operation ever finds it already held
C4_GuardReleasedAtSwitch ==
    /\ pc = "switch" => ~borrowed
    /\ panic_msg # "already borrowed"

C4_Witness ==
    /\ pc = "switch"
    /\ ~borrowed
    /\ next_task = 0
    /\ task_status[1] = Ready
    /\ task_status[2] = Exited

\* C5: a status changes only Ready->Running, Running->Ready or
\* Running->Exited; an Exited task stays Exited and is never selected
C5_StatusTransitions ==
    [][/\ \A i \in Tasks :
             task_status'[i] # task_status[i] =>
                 <<task_status[i], task_status'[i]>> \in
                     {<<Ready, Running>>, <<Running, Ready>>, <<Running, Exited>>}
       /\ \A i \in Tasks : task_status[i] = Exited => task_status'[i] = Exited
       /\ (pc = "run_next" /\ pc' = "switch") =>
             /\ task_status[next_task'] = Ready
             /\ current_task' = next_task']_vars

C5_Witness ==
    /\ pc = "user"
    /\ task_status[0] = Exited
    /\ current_task = 1
    /\ next_task = 1
    /\ task_status[1] = Running
    /\ start_time[2] # None

\* an Alloc / FrameAlloc step and a Dealloc / DropTracker step
IsAllocStep == nalloc' = nalloc + 1
IsDeallocStep == fa_op'[1] = "dealloc" /\ (pc' # pc \/ recycled' # recycled)

\* C6: after init(low, high) with N = high - low and no dealloc, the first
\* N allocs return N pairwise-distinct pages of [low, high) and the
\* (N+1)-th returns none
C6_AllocExhaustsRange ==
    (fa_op # <<"new">> /\ ~ndealloc) =>
        LET N == end - fa_low
        IN  /\ returned \subseteq fa_low .. (end - 1)
            /\ Cardinality(returned) = Min(nalloc, N)
            /\ (nalloc > 0 /\ nalloc <= N) => fa_ret \in fa_low .. (end - 1)
            /\ nalloc > N => fa_ret = None

C6_Witness ==
    /\ ~ndealloc
    /\ end - fa_low = 3
    /\ nalloc = 4
    /\ Cardinality(returned) = 3
    /\ fa_ret = None

\* C7: alloc pops the most recently freed page whenever recycled is
\* non-empty, leaving current alone, and advances the frontier only when
\* recycled is empty; so an alloc right after a free returns the freed page
C7_LifoReuse ==
    [][IsAllocStep =>
          /\ IF recycled # <<>>
             THEN /\ fa_ret' = recycled[Len(recycled)]
                  /\ recycled' = SubSeq(recycled, 1, Len(recycled) - 1)
                  /\ current' = current
             ELSE /\ recycled' = recycled
                  /\ \/ current = end /\ fa_ret' = None /\ current' = current
                     \/ current < end /\ fa_ret' = current
                                      /\ current' = current + 1
          /\ fa_op[1] = "dealloc" =>
                (fa_ret' = fa_op[2] /\ current' = current)]_vars

C7_Witness ==
    /\ fa_op = <<"alloc">>
    /\ ndealloc
    /\ fa_ret # None
    /\ fa_ret >= fa_low
    /\ fa_ret < current - 1
    /\ recycled # <<>>

\* C8 as stated: dealloc(ppn) is fatal and changes nothing unless ppn is a
\* page that is currently allocated, for every page number; only then is
\* ppn pushed onto recycled
C8_DeallocFatalUnlessAllocated ==
    [][IsDeallocStep =>
          LET ppn == fa_op'[2]
          IN  IF ppn \in allocated
              THEN /\ pc' # "halt"
                   /\ recycled' = Append(recycled, ppn)
              ELSE /\ pc' = "halt"
                   /\ panic_msg' = "Frame has not been allocated!"
                   /\ recycled' = recycled
                   /\ current' = current
                   /\ end' = end]_vars

\* C9: every page in recycled is below current, occurs once, was returned
\* by alloc and has no live FrameTracker; no page has two live FrameTrackers
C9_RecycledInvariant ==
    /\ \A i \in 1 .. Len(recycled) :
          /\ recycled[i] < current
          /\ recycled[i] \in returned
          /\ trackers[recycled[i]] = 0
          /\ \A j \in 1 .. Len(recycled) : recycled[j] = recycled[i] => j = i
    /\ \A p \in PPNs : trackers[p] <= 1

C9_Witness ==
    /\ Len(recycled) = 2
    /\ recycled[1] > recycled[2]
    /\ \E p \in PPNs : trackers[p] = 1 /\ p < recycled[1]
    /\ nalloc >= 4

\* a task_mmap call of the running task
IsMmapStep == pc = "user" /\ pc' # "run_next" /\ mm_op'[1] = "mmap"

\* C10: a task_mmap whose page range contains a page that is already
\* validly mapped in the current task returns -1 and leaves every address
\* space and the frame allocator as they were
C10_MmapOverlapRejected ==
    [][IsMmapStep =>
          LET start == mm_op'[2]
              len == mm_op'[3]
          IN  (\E vpn \in VPNRange(floor(start), ceil(start + len)) :
                   memory_set[current_task][vpn].kind = "valid") =>
                  /\ mm_ret' = -1
                  /\ pc' = "user"
                  /\ memory_set' = memory_set
                  /\ current' = current
                  /\ end' = end
                  /\ recycled' = recycled
                  /\ trackers' = trackers]_vars

C10_Witness ==
    /\ pc = "user"
    /\ mm_op = <<"mmap", 0, 3, 3>>
    /\ mm_ret = -1
    /\ memory_set[current_task][0].kind = "none"
    /\ memory_set[current_task][1].kind = "valid"
    /\ current < end

\* a task_munmap call of the running task
IsMunmapStep == pc = "user" /\ pc' # "run_next" /\ mm_op'[1] = "munmap"

\* the pages a call with these arguments covers
CoveredPages(start, len) == VPNRange(floor(start), ceil(start + len))

\* the frame allocator is left as it was
AllocatorUntouched ==
    /\ current' = current
    /\ end' = end
    /\ recycled' = recycled
    /\ trackers' = trackers

\* C11: a task_munmap whose page range contains a page that is not validly
\* mapped in the current task (no entry, or an invalid one) returns -1 and
\* leaves every address space and the frame allocator as they were
C11_MunmapMissingRejected ==
    [][IsMunmapStep =>
          ((\E vpn \in CoveredPages(mm_op'[2], mm_op'[3]) :
                memory_set[current_task][vpn].kind # "valid") =>
               /\ mm_ret' = -1
               /\ pc' = "user"
               /\ memory_set' = memory_set
               /\ AllocatorUntouched)]_vars

C11_Witness ==
    /\ pc = "user"
    /\ mm_op = <<"munmap", 0, 3>>
    /\ mm_ret = -1
    /\ memory_set[current_task][0].kind = "valid"
    /\ memory_set[current_task][1].kind = "invalid"

\* the task manager's scheduling state and histograms are left as they were
TaskStateUntouched ==
    /\ task_status' = task_status
    /\ start_time' = start_time
    /\ current_task' = current_task
    /\ syscall_times' = syscall_times

\* C12: task_mmap with an unaligned start, with permission bits 0 or with
\* any bit above bit 2 set (whatever the value of the argument), and
\* task_munmap with an unaligned start, return -1 and change nothing
C12_BadArgumentsRejected ==
    [][/\ (IsMmapStep /\ ( \/ mm_op'[2] % PAGE_SIZE # 0
                           \/ mm_op'[4] = 0
                           \/ mm_op'[4] >= 8 )) =>
             /\ mm_ret' = -1
             /\ pc' = "user"
             /\ memory_set' = memory_set
             /\ AllocatorUntouched
             /\ TaskStateUntouched
       /\ (IsMunmapStep /\ mm_op'[2] % PAGE_SIZE # 0) =>
             /\ mm_ret' = -1
             /\ pc' = "user"
             /\ memory_set' = memory_set
             /\ AllocatorUntouched
             /\ TaskStateUntouched]_vars

C12_Witness ==
    /\ pc = "user"
    /\ mm_op = <<"mmap", 0, 1, 257>>
    /\ mm_ret = -1
    /\ memory_set[current_task][0].kind = "none"
    /\ current < end

\* a task_mmap call that passes validation: aligned start, permission bits
\* in 1 .. 7, no page of the range validly mapped
MmapPassesValidation ==
    /\ IsMmapStep
    /\ mm_op'[2] % PAGE_SIZE = 0
    /\ mm_op'[4] \in 1 .. 7
    /\ \A vpn \in CoveredPages(mm_op'[2], mm_op'[3]) :
          memory_set[current_task][vpn].kind # "valid"

\* what C13 says of the call's outcome: 0 is returned, every page of the
\* range is mapped to a fresh frame of its own with U and exactly the
\* requested R, W, X, and the other pages are as before
MmapMapsRange ==
    LET range == CoveredPages(mm_op'[2], mm_op'[3])
        port == mm_op'[4]
        after == memory_set'[current_task]
    IN  /\ mm_ret' = 0
        /\ pc' = "user"
        /\ \A vpn \in range :
              /\ after[vpn].kind = "valid"
              /\ trackers[after[vpn].ppn] = 0
              /\ trackers'[after[vpn].ppn] = 1
              /\ \A other \in range :
                    after[other].ppn = after[vpn].ppn => other = vpn
              /\ Bit(after[vpn].flags, 1) = Bit(port, 0)
              /\ Bit(after[vpn].flags, 2) = Bit(port, 1)
              /\ Bit(after[vpn].flags, 3) = Bit(port, 2)
              /\ Bit(after[vpn].flags, 4) = 1
              /\ Bit(after[vpn].flags, 0) = 0
              /\ after[vpn].flags < 32
        /\ \A vpn \in VPNs \ range : after[vpn] = memory_set[current_task][vpn]
        /\ \A i \in Tasks \ {current_task} : memory_set'[i] = memory_set[i]

FreeFrames == Len(recycled) + (end - current)

C14_MunmapFreesRange ==
    [][(/\ IsMunmapStep
        /\ mm_op'[2] % PAGE_SIZE = 0
        /\ \A vpn \in CoveredPages(mm_op'[2], mm_op'[3]) :
              memory_set[current_task][vpn].kind = "valid") =>
          LET range == CoveredPages(mm_op'[2], mm_op'[3])
              before == memory_set[current_task]
              after == memory_set'[current_task]
          IN  /\ mm_ret' = 0
              /\ pc' = "user"
              /\ \A vpn \in range :
                    /\ after[vpn].kind # "valid"
                    /\ \E k \in 1 .. Len(recycled') :
                          recycled'[k] = before[vpn].ppn
                    /\ trackers'[before[vpn].ppn] = 0
              /\ Len(recycled') = Len(recycled) + Cardinality(range)
              /\ \A vpn \in VPNs \ range : after[vpn] = before[vpn]
              /\ \A i \in Tasks \ {current_task} :
                    memory_set'[i] = memory_set[i]]_vars

C14_Witness ==
    /\ pc = "user"
    /\ mm_op = <<"munmap", 0, 3>>
    /\ mm_ret = 0
    /\ memory_set[current_task][0].kind = "invalid"
    /\ memory_set[current_task][1].kind = "invalid"
    /\ Len(recycled) = 2

\* C15: count_syscall(id) with id >= MAX_SYSCALL_NUM changes no histogram;
\* with a valid id it adds one to entry id of the current task only, so
\* get_syscall_times gives, for each id, the number of count_syscall(id)
\* calls made while that task was current
C15_SyscallHistogram ==
    /\ [](\A id \in 0 .. (MAX_SYSCALL_NUM - 1) :
            /\ get_syscall_times[id] = calls[current_task][id]
            /\ \A i \in Tasks : syscall_times[i][id] = calls[i][id])
    /\ [][\A i \in Tasks : \A id \in SyscallIds :
             calls'[i][id] # calls[i][id] =>
                 /\ i = current_task
                 /\ IF id >= MAX_SYSCALL_NUM
                    THEN syscall_times' = syscall_times
                    ELSE /\ syscall_times'[i][id] = syscall_times[i][id] + 1
                         /\ \A j \in Tasks :
                              \A other \in 0 .. (MAX_SYSCALL_NUM - 1) :
                                 <<j, other>> # <<i, id>> =>
                                     syscall_times'[j][other] =
                                         syscall_times[j][other]]_vars

C15_Witness ==
    /\ pc = "user"
    /\ current_task = 1
    /\ syscall_times[1][1] = 1
    /\ syscall_times[1][0] = 0
    /\ calls[0][MAX_SYSCALL_NUM] = 1
    /\ \A id \in 0 .. (MAX_SYSCALL_NUM - 1) : syscall_times[0][id] = 0

\* a step of SpecTime that is a get_current_run_time call of the running task
IsRunTimeStep == pc = "user" /\ time' = time /\ pc' # "run_next"

\* C16: get_current_run_time returns the current time minus the current
\* task's start_time, both read from the same clock in the same unit; the
\* subtraction never underflows and successive results of one task never
\* decrease
C16_RunTimeIsElapsed ==
    [][IsRunTimeStep =>
          /\ pc' = "user"
          /\ rt_ret'[1] = current_task
          /\ \/ rt_ret'[2] = get_time(time) - start_time[current_task]
             \/ rt_ret'[2] = get_time_ms(time) - get_time_ms(start_time[current_task])
          /\ rt_ret[1] = current_task => rt_ret'[2] >= rt_ret[2]]_vars

\* C17: a task's start_time is None until its first dispatch, is set in
\* every state where the task is or has been Running (so the run-time query
\* of the current task never meets None), is set to the clock reading of
\* that dispatch, and never changes afterwards
C17_StartTimeSetOnce ==
    /\ [](\A i \in Tasks :
            /\ task_status[i] \in {Running, Exited} => start_time[i] # None
            /\ start_time[i] = None => task_status[i] = Ready
            /\ pc = "user" /\ i = current_task => start_time[i] # None)
    /\ [][\A i \in Tasks :
             /\ start_time'[i] # start_time[i] =>
                    /\ start_time[i] = None
                    /\ task_status[i] = Ready
                    /\ task_status'[i] = Running
                    /\ start_time'[i] = time
             /\ task_status[i] = Ready /\ task_status'[i] = Running =>
                    start_time'[i] # None]_vars

C17_Witness ==
    /\ pc = "user"
    /\ current_task = 0
    /\ task_status[0] = Running
    /\ time = 2
    /\ start_time[0] = 0
    /\ start_time[1] = 1
    /\ start_time[2] = 2

\* C18: task_mmap, task_munmap, count_syscall, mark_current_suspended and
\* mark_current_exited are invoked while current_task indexes the one
\* Running task, and leave the address space, syscall histogram, status and
\* start_time of every other task unchanged
C18_OnlyCurrentTaskTouched ==
    [][pc = "user" =>
          /\ task_status[current_task] = Running
          /\ RunningTasks = {current_task}
          /\ \A i \in Tasks \ {current_task} :
                /\ memory_set'[i] = memory_set[i]
                /\ syscall_times'[i] = syscall_times[i]
                /\ task_status'[i] = task_status[i]
                /\ start_time'[i] = start_time[i]]_vars

C18_Witness ==
    /\ pc = "user"
    /\ current_task = 1
    /\ task_status[0] = Exited
    /\ is_valid(memory_set[0][0])
    /\ memory_set[1][0] = InvalidPte
    /\ syscall_times[1][1] = 1
    /\ syscall_times[0][1] = 0

\* a yielding task is re-dispatched only after every task that was Ready
\* when it yielded has been dispatched
YielderWaitsForOthers ==
    \A i \in Tasks : task_status[i] = Running => owed[i] = {}

\* C19 as stated: a Ready task is dispatched within num_app - 1 dispatches,
\* so at most num_app - 2 dispatches pass it over, and a task that yields is
\* not re-dispatched before the tasks that were Ready when it yielded
C19_DispatchedWithinNumAppMinusOne ==
    /\ \A i \in Tasks : task_status[i] = Ready => waited[i] <= NumApp - 2
    /\ YielderWaitsForOthers

\* C19 amended: a Ready task is dispatched within num_app dispatches, so at
\* most num_app - 1 dispatches pass it over (the task that yields while all
\* others are Ready waits for each of them), and a task that yields is not
\* re-dispatched before the tasks that were Ready when it yielded
C19_DispatchedWithinNumApp ==
    /\ \A i \in Tasks : task_status[i] = Ready => waited[i] <= NumApp - 1
    /\ YielderWaitsForOthers

C19_Witness ==
    /\ pc = "user"
    /\ task_status[0] = Ready
    /\ waited[0] = NumApp - 1
    /\ owed[0] = {}
    /\ current_task = NumApp - 1

\* the page numbers on the recycled stack
RecycledSet == {recycled[i] : i \in 1 .. Len(recycled)}

\* the page numbers held by a live FrameTracker
HeldSet == {p \in PPNs : trackers[p] > 0}

\* C20: after init(low, high), under frame_alloc and FrameTracker drops,
\* the pages of [low, current) are partitioned into those held by exactly
\* one live FrameTracker and those in recycled, nothing outside that range
\* is held or recycled, low <= current <= end, current never decreases and
\* end never changes
C20_FrameConservation ==
    /\ [](fa_op # <<"new">> =>
            /\ fa_low <= current /\ current <= end
            /\ \A p \in PPNs : trackers[p] <= 1
            /\ \A i, j \in 1 .. Len(recycled) :
                  recycled[i] = recycled[j] => i = j
            /\ HeldSet \cap RecycledSet = {}
            /\ HeldSet \cup RecycledSet = fa_low .. (current - 1))
    /\ [][fa_op # <<"new">> => current' >= current /\ end' = end]_vars

C20_Witness ==
    /\ fa_low = 1
    /\ current = 3
    /\ current < end
    /\ recycled = <<2>>
    /\ trackers[1] = 1
    /\ nalloc = 3
====
